---- MODULE Spec2Model ----
(***************************************************************************)
(* Playback observation pipeline of the rx-player:                         *)
(*   - createCorePlaybackObserver (main_thread/init/utils), the transform  *)
(*     that derives the core playback observation from the base one,      *)
(*   - updateWantedPositionIfAfterManifest and getPendingPaused,          *)
(*   - WorkerPlaybackObserver (core/init/multithread/worker).             *)
(*                                                                         *)
(* Times are counted in half seconds, so that a position such as 99.5 s    *)
(* (half a second before the end of a period) is an integer.               *)
(***************************************************************************)
EXTENDS Integers, Sequences, FiniteSets, TLC

\* ------------------------------------------------------------- bounds
\* Largest time (in half seconds) of a period bound, a duration or a range.
MaxTime == 4
\* Largest number of source updates (base observation or speed) in a run.
MaxUpdates == 3
\* Largest number of calls of updateWantedPositionIfAfterManifest on one
\* observation in the specification of the exported functions.
MaxCalls == 2

\* Largest number of observation messages posted to the worker, and of
\* playback rates it is asked for.
MaxMessages == 3
\* Largest number of calls of WorkerPlaybackObserver.listen.
MaxListens == 2
\* Number of cleanup callbacks given to one cancellation signal.
MaxCleanups == 4
\* Largest number of calls of cancel() on one cancellation signal.
MaxCancels == 2
\* Largest number of pairs of ticks in a time or duration read from a
\* segment, a sidx or a media box.
MaxTicks == 2

\* The "1" of `lastPeriod.end - 1` and `observation.duration - 1`: one
\* second, in half seconds.
OneSecond == 2

\* ------------------------------------------------------------- values
\* JavaScript's `undefined`, and a defined value.
Undefined == <<>>
Def(v) == <<v>>
IsDefined(o) == o # Undefined
Val(o) == o[1]

Last(s) == s[Len(s)]

\* ------------------------------------------------- exported functions

\* `wantedPosition >= lastPeriod.start && wantedPosition >= lastPeriod.end - 1`
IsAfterLastSecond(wantedPosition, lastPeriod) ==
  /\ wantedPosition >= lastPeriod.start
  /\ wantedPosition >= Val(lastPeriod.end) - OneSecond

\* `buffered.length === 0 ||
\*  buffered.end(buffered.length - 1) < observation.duration - 1`
LastSegmentNotBuffered(buffered, duration) ==
  \/ Len(buffered) = 0
  \/ Last(buffered).end < duration - OneSecond

\* Whether updateWantedPositionIfAfterManifest reaches its call of
\* `observation.position.forceWantedPosition`.
ForcesWantedPosition(observation, man) ==
  /\ (~man.isDynamic) \/ man.isLastPeriodKnown
  /\ Len(man.periods) > 0
  /\ IsDefined(Last(man.periods).end)
  /\ IsAfterLastSecond(observation.wanted, Last(man.periods))
  /\ LastSegmentNotBuffered(observation.buffered, observation.duration)

\* A correction that forgets the one-second margin.
updateWantedPositionNoMargin(observation, man) ==
  IF ForcesWantedPosition(observation, man)
    THEN Val(Last(man.periods).end)
    ELSE observation.wanted

\* A correction that does not look at what is buffered.
updateWantedPositionIgnoringBuffered(observation, man) ==
  IF ForcesWantedPosition([observation EXCEPT !.buffered = <<>>], man)
    THEN Val(Last(man.periods).end) - OneSecond
    ELSE observation.wanted

\* A correction that moves the wanted position one second back from where
\* it is, instead of one second before the period's end.
updateWantedPositionOneSecondBack(observation, man) ==
  IF ForcesWantedPosition(observation, man)
    THEN observation.wanted - OneSecond
    ELSE observation.wanted

\* updateWantedPositionIfAfterManifest(observation, manifest): the value of
\* `observation.position.getWanted()` once the call has returned.  The
\* function returns nothing: its only effect is this write on the position
\* object of the observation it was given.
updateWantedPositionIfAfterManifest(observation, man) ==
  IF ForcesWantedPosition(observation, man)
    THEN Val(Last(man.periods).end) - OneSecond
    ELSE observation.wanted

\* A pending pause that ignores that the initial play was performed.
getPendingPausedIgnoringInitialPlay(initialPlayPerformedValue, autoPlayArg) ==
  Def(~autoPlayArg)

\* getPendingPaused(initialPlayPerformed, autoPlay), on the value held by
\* the initialPlayPerformed reference.
getPendingPaused(initialPlayPerformedValue, autoPlayArg) ==
  IF initialPlayPerformedValue THEN Undefined ELSE Def(~autoPlayArg)


\* --------------------------------------------------------------- state
VARIABLES
  manifest,             \* the IManifestMetadata given to createCorePlaybackObserver
  autoPlay,             \* ICorePlaybackObserverArguments.autoPlay
  initialPlayPerformed, \* value held by the initialPlayPerformed reference
  speed,                \* value held by the speed reference
  positions,            \* heap of position objects: id -> their wanted position
  publishedWanted,      \* id -> wanted position the object had when its
                        \* observation was published on the base reference
  observationRef,       \* value held by the base observer's reference
  derived,              \* createCorePlaybackObserver has been called
  linked,               \* signals transform linked its canceller to
  newRef,               \* the core reference: [value, finished], once derived
  parentCancelled,      \* parentObserverCancelSignal.isCancelled()
  fnCancelled,          \* fnCancelSignal.isCancelled()
  cancellerCancelled,   \* canceller.signal.isCancelled() (transform's canceller)
  speedCbs,             \* callbacks registered on the speed reference, in order
  observationCbs,       \* callbacks registered on the base reference, in order
  setupCount,           \* runs of the transform's body
  handlerCount,         \* runs of emitCorePlaybackObservation
  sourceUpdates,        \* setValue calls on the base and speed references
  coreListener,         \* a listener of the core observer: [registered, calls, last]
  srcListener,          \* another listener of the base observer: [calls, wanted]
  calls,                \* direct calls of updateWantedPositionIfAfterManifest
  pendingCall,          \* last direct call of getPendingPaused: its inputs and result
  workerSrc,            \* WorkerPlaybackObserver._src: the value it holds
  workerCancelled,      \* WorkerPlaybackObserver._cancelSignal.isCancelled()
  inbound,              \* observation messages in flight towards the worker
  sent,                 \* observation messages posted so far
  outbound,             \* messages the worker gave to sendMessage, in order
  workerListener,       \* a listener of the worker observer: [registered, calls, last]
  queryResult,          \* last direct query of the worker observer and its result
  rateRequests,         \* playback rates given to setPlaybackRate, in order
  listenCall,           \* calls of listen so far, and the options of the last one
  signal,               \* a cancellation signal and its cleanup callbacks
  timing                \* a call of getISOBMFFTimingInfos: its inputs and result

coreVars ==
  << manifest, autoPlay, initialPlayPerformed, speed, positions, publishedWanted,
     observationRef, derived, linked, newRef, parentCancelled, fnCancelled,
     cancellerCancelled, speedCbs, observationCbs, setupCount, handlerCount,
     sourceUpdates, coreListener, srcListener >>

callVars == << calls, pendingCall >>

workerVars ==
  << workerSrc, workerCancelled, inbound, sent, outbound, workerListener,
     queryResult, rateRequests, listenCall >>

auxVars == << signal, timing >>

vars == << coreVars, callVars, workerVars, auxVars >>

\* ------------------------------------------------------------- inputs
Times == 0..MaxTime

\* A period, and the manifests built on a last period.
Period(s, e) == [start |-> s, end |-> e]

Periods ==
  { Period(s, Undefined) : s \in Times }
    \cup { Period(s, Def(e)) : s \in Times, e \in Times }

\* `periods` holds no period, only the last one, or a first period ending
\* where the last one starts.
PeriodLists ==
  { <<>> }
    \cup { <<p>> : p \in { q \in Periods : IsDefined(q.end) => q.start <= Val(q.end) } }
    \cup { << Period(0, Def(p.start)), p >> :
             p \in { q \in Periods : /\ q.start > 0
                                     /\ IsDefined(q.end) => q.start <= Val(q.end) } }

\* The manifest's maximum safe position is given by the manifest itself
\* (`getMaximumSafePosition(manifest)`): here the end of what it announces.
AnnouncedEnd(periods) ==
  IF Len(periods) = 0 THEN 0
  ELSE IF IsDefined(Last(periods).end) THEN Val(Last(periods).end)
  ELSE MaxTime

Manifest(dyn, known, periods) ==
  [ isDynamic |-> dyn, isLastPeriodKnown |-> known, periods |-> periods,
    maximumSafePosition |-> AnnouncedEnd(periods) ]

Manifests ==
  { Manifest(dyn, known, ps) : dyn \in BOOLEAN, known \in BOOLEAN, ps \in PeriodLists }

\* A finished content of one period [0, e), and a live one.
StaticManifest(e) == Manifest(FALSE, TRUE, << Period(0, Def(e)) >>)
LiveManifest == Manifest(TRUE, FALSE, << Period(0, Undefined) >>)
CoreManifests == { StaticManifest(MaxTime), StaticManifest(MaxTime - 1), LiveManifest }

\* Buffered time ranges (`TimeRanges`): sorted and disjoint.
Range(s, e) == [start |-> s, end |-> e]
BufferedRanges ==
  { <<>> }
    \cup { << Range(0, e) >> : e \in 1..MaxTime }
    \cup { << Range(0, 1), Range(2, e) >> : e \in 3..MaxTime }

WantedPositions == 0..(MaxTime + 1)
Durations == { MaxTime - 1, MaxTime }
Speeds == { 1, 2 }

\* What the base observer samples besides position and duration: nothing
\* buffered (no buffer gap, rebuffering), or something buffered.
Starved ==
  [ buffered |-> <<>>, bufferGap |-> 0, paused |-> TRUE, readyState |-> 1,
    rebuffering |-> TRUE, freezing |-> FALSE ]
Fed(buffered) ==
  [ buffered |-> buffered, bufferGap |-> 2, paused |-> FALSE, readyState |-> 4,
    rebuffering |-> FALSE, freezing |-> TRUE ]
Sample(buffered) == IF buffered = <<>> THEN Starved ELSE Fed(buffered)

\* An IPlaybackObservation whose `position` is the position object `id`.
BaseObservation(id, duration, sample) ==
  [ position |-> id, buffered |-> sample.buffered, duration |-> duration,
    bufferGap |-> sample.bufferGap, paused |-> sample.paused,
    readyState |-> sample.readyState, rebuffering |-> sample.rebuffering,
    freezing |-> sample.freezing ]

\* The part of an observation updateWantedPositionIfAfterManifest reads,
\* `observation.position.getWanted()` read from the heap.
Resolve(observation, heap) ==
  [ wanted |-> heap[observation.position],
    buffered |-> observation.buffered,
    duration |-> observation.duration ]


\* ------------------------------------------------ the core observation

\* getMaximumSafePosition(manifest).
getMaximumSafePosition(man) == man.maximumSafePosition

\* A construction that takes the maximum position from the observation's
\* duration instead of asking the manifest.
constructWithDurationAsMaximum(observation, heap, lastSpeed, man, ipp, ap) ==
  [ heap |-> [heap EXCEPT ![observation.position] =
                updateWantedPositionIfAfterManifest(Resolve(observation, heap), man)],
    value |->
      [ maximumPosition |-> observation.duration,
        bufferGap |-> observation.bufferGap,
        position |-> observation.position,
        duration |-> observation.duration,
        rebuffering |-> observation.rebuffering,
        freezing |-> observation.freezing,
        paused |-> [ last |-> observation.paused,
                     pending |-> getPendingPaused(ipp, ap) ],
        readyState |-> observation.readyState,
        speed |-> lastSpeed ] ]

\* A construction that keeps what the core reference already says of the
\* buffer (bufferGap, rebuffering, freezing) and takes the rest from the
\* observation it was given.
constructKeepingBufferState(observation, heap, lastSpeed, man, ipp, ap) ==
  LET previous == IF IsDefined(newRef)
                    THEN Val(newRef).value
                    ELSE [ bufferGap |-> observation.bufferGap,
                           rebuffering |-> observation.rebuffering,
                           freezing |-> observation.freezing ]
  IN [ heap |-> [heap EXCEPT ![observation.position] =
                   updateWantedPositionIfAfterManifest(Resolve(observation, heap), man)],
       value |->
         [ maximumPosition |-> getMaximumSafePosition(man),
           bufferGap |-> previous.bufferGap,
           position |-> observation.position,
           duration |-> observation.duration,
           rebuffering |-> previous.rebuffering,
           freezing |-> previous.freezing,
           paused |-> [ last |-> observation.paused,
                        pending |-> getPendingPaused(ipp, ap) ],
           readyState |-> observation.readyState,
           speed |-> lastSpeed ] ]

\* constructCorePlaybackObservation(), on what it reads: the value of
\* observationRef, the heap of position objects, the value of speed, the
\* manifest, the value of initialPlayPerformed and autoPlay.  It gives the
\* heap once updateWantedPositionIfAfterManifest has written the wanted
\* position of `observation.position`, and the object it returns, whose
\* `position` is the very position object of `observation`.  (`buffered`, the
\* ranges of each media buffer, comes from getBufferedDataPerMediaBuffer and
\* is left out.)
constructCorePlaybackObservation(observation, heap, lastSpeed, man, ipp, ap) ==
  [ heap |-> [heap EXCEPT ![observation.position] =
                updateWantedPositionIfAfterManifest(Resolve(observation, heap), man)],
    value |->
      [ maximumPosition |-> getMaximumSafePosition(man),
        bufferGap |-> observation.bufferGap,
        position |-> observation.position,
        duration |-> observation.duration,
        rebuffering |-> observation.rebuffering,
        freezing |-> observation.freezing,
        paused |-> [ last |-> observation.paused,
                     pending |-> getPendingPaused(ipp, ap) ],
        readyState |-> observation.readyState,
        speed |-> lastSpeed ] ]

\* Position objects still held by a reference: the others are garbage.
Reachable(observation, core) ==
  { observation.position }
    \cup (IF IsDefined(core) THEN { Val(core).value.position } ELSE {})

Restrict(f, S) == [ x \in S |-> f[x] ]

\* SharedReference.setValue on the core reference: the value is replaced and
\* every registered listener is called with it; a finished reference accepts
\* no update.
NotifyCoreListener(listener, value) ==
  IF listener.registered
    THEN [ listener EXCEPT !.calls = @ + 1, !.last = Def(value) ]
    ELSE listener

\* A handler that publishes nothing when the observation it built equals the
\* one the reference holds.
emitOnlyIfChanged(observation, heap, lastSpeed) ==
  LET built == constructCorePlaybackObservation(observation, heap, lastSpeed,
                 manifest, initialPlayPerformed, autoPlay)
      same == Val(newRef).value = built.value
  IN /\ handlerCount' = handlerCount + 1
     /\ setupCount' = setupCount
     /\ newRef' = IF Val(newRef).finished \/ same THEN newRef
                  ELSE Def([ Val(newRef) EXCEPT !.value = built.value ])
     /\ coreListener' = IF Val(newRef).finished \/ same THEN coreListener
                        ELSE NotifyCoreListener(coreListener, built.value)
     /\ positions' = Restrict(built.heap, Reachable(observation, newRef'))

\* A handler that runs the whole body of the transform again.
emitBySetupAgain(observation, heap, lastSpeed) ==
  LET built == constructCorePlaybackObservation(observation, heap, lastSpeed,
                 manifest, initialPlayPerformed, autoPlay)
  IN /\ handlerCount' = handlerCount + 1
     /\ setupCount' = setupCount + 1
     /\ newRef' = Def([ value |-> built.value, finished |-> FALSE ])
     /\ coreListener' = coreListener
     /\ positions' = Restrict(built.heap, Reachable(observation, newRef'))

\* emitCorePlaybackObservation(): newRef.setValue(constructCorePlaybackObservation()),
\* run with `observation` held by observationRef and `lastSpeed` by speed.
emitCorePlaybackObservation(observation, heap, lastSpeed) ==
  LET built == constructCorePlaybackObservation(observation, heap, lastSpeed,
                 manifest, initialPlayPerformed, autoPlay)
  IN /\ handlerCount' = handlerCount + 1
     /\ setupCount' = setupCount
     /\ newRef' = IF Val(newRef).finished THEN newRef
                  ELSE Def([ Val(newRef) EXCEPT !.value = built.value ])
     /\ coreListener' = IF Val(newRef).finished THEN coreListener
                        ELSE NotifyCoreListener(coreListener, built.value)
     /\ positions' = Restrict(built.heap, Reachable(observation, newRef'))

\* No handler of the core observer is registered on the updated reference.
NoCoreHandler(observation, heap) ==
  /\ UNCHANGED << handlerCount, setupCount, newRef, coreListener >>
  /\ positions' = Restrict(heap, Reachable(observation, newRef))

Registered(cbs, cb) == \E i \in 1..Len(cbs) : cbs[i] = cb

\* ------------------------------------------------------------ actions

\* Inputs of the pipeline.
CoreWanted == { 0, MaxTime - 1, MaxTime + 1 }
CoreBuffered == { <<>>, << Range(0, MaxTime) >> }

\* The base observer publishes a new observation: observationRef.setValue.
\* Its listeners run in registration order inside the call.
UpdateBaseObservation ==
  /\ ~parentCancelled
  /\ sourceUpdates < MaxUpdates
  /\ \E w \in CoreWanted, b \in CoreBuffered :
       LET id == observationRef.position + 1
           observation == BaseObservation(id, MaxTime, Sample(b))
           heap == (id :> w) @@ positions
       IN /\ observationRef' = observation
          /\ srcListener' = IF Registered(observationCbs, "srcListener")
                              THEN [ calls |-> srcListener.calls + 1,
                                     wanted |-> Def(w) ]
                              ELSE srcListener
          /\ IF Registered(observationCbs, "emitCorePlaybackObservation")
               THEN emitCorePlaybackObservation(observation, heap, speed)
               ELSE NoCoreHandler(observation, heap)
          /\ publishedWanted' =
               Restrict((id :> w) @@ publishedWanted, DOMAIN positions')
  /\ sourceUpdates' = sourceUpdates + 1
  /\ UNCHANGED << manifest, autoPlay, initialPlayPerformed, speed, derived, linked,
                  parentCancelled, fnCancelled, cancellerCancelled, speedCbs,
                  observationCbs, callVars, workerVars, auxVars >>

\* The user asks for another speed: speed.setValue.
UpdateSpeed ==
  /\ sourceUpdates < MaxUpdates
  /\ \E v \in Speeds :
       /\ speed' = v
       /\ IF Registered(speedCbs, "emitCorePlaybackObservation")
            THEN emitCorePlaybackObservation(observationRef, positions, v)
            ELSE NoCoreHandler(observationRef, positions)
  /\ publishedWanted' = Restrict(publishedWanted, DOMAIN positions')
  /\ sourceUpdates' = sourceUpdates + 1
  /\ UNCHANGED << manifest, autoPlay, initialPlayPerformed, observationRef,
                  derived, linked, parentCancelled, fnCancelled, cancellerCancelled,
                  speedCbs, observationCbs, srcListener, callVars, workerVars, auxVars >>

\* The manifest is updated in place (a refresh): nothing is notified.
UpdateManifest ==
  /\ \E m \in CoreManifests \ { manifest } : manifest' = m
  /\ UNCHANGED << autoPlay, initialPlayPerformed, speed, positions,
                  publishedWanted, observationRef, derived, linked, newRef,
                  parentCancelled, fnCancelled, cancellerCancelled, speedCbs,
                  observationCbs, setupCount, handlerCount, sourceUpdates,
                  coreListener, srcListener, callVars, workerVars, auxVars >>

\* The initial play has been taken care of: the reference becomes true.
PerformInitialPlay ==
  /\ ~initialPlayPerformed
  /\ initialPlayPerformed' = TRUE
  /\ UNCHANGED << manifest, autoPlay, speed, positions, publishedWanted,
                  observationRef, derived, linked, newRef, parentCancelled, fnCancelled,
                  cancellerCancelled, speedCbs, observationCbs, setupCount,
                  handlerCount, sourceUpdates, coreListener, srcListener,
                  callVars, workerVars, auxVars >>


\* No canceller exists before transform runs.
NotLinked == [ signals |-> {}, cancelledAtLink |-> FALSE ]

\* A transform that subscribes to the base observation only.
transformWithoutSpeed ==
  LET cancelled == parentCancelled \/ fnCancelled
      built == constructCorePlaybackObservation(observationRef, positions, speed,
                 manifest, initialPlayPerformed, autoPlay)
  IN /\ setupCount' = setupCount + 1
     /\ linked' = [ signals |-> { "parent", "fn" }, cancelledAtLink |-> cancelled ]
     /\ cancellerCancelled' = cancelled
     /\ newRef' = Def([ value |-> built.value, finished |-> cancelled ])
     /\ positions' = Restrict(built.heap, Reachable(observationRef, newRef'))
     /\ speedCbs' = speedCbs
     /\ observationCbs' =
          IF cancelled THEN observationCbs
          ELSE Append(observationCbs, "emitCorePlaybackObservation")

\* A transform whose canceller is linked to the base observer's signal only.
transformLinkedToParentOnly ==
  LET cancelled == parentCancelled
      built == constructCorePlaybackObservation(observationRef, positions, speed,
                 manifest, initialPlayPerformed, autoPlay)
  IN /\ setupCount' = setupCount + 1
     /\ linked' = [ signals |-> { "parent" }, cancelledAtLink |-> cancelled ]
     /\ cancellerCancelled' = cancelled
     /\ newRef' = Def([ value |-> built.value, finished |-> cancelled ])
     /\ positions' = Restrict(built.heap, Reachable(observationRef, newRef'))
     /\ speedCbs' =
          IF cancelled THEN speedCbs
          ELSE Append(speedCbs, "emitCorePlaybackObservation")
     /\ observationCbs' =
          IF cancelled THEN observationCbs
          ELSE Append(observationCbs, "emitCorePlaybackObservation")

\* A transform that registers its handler whether or not its canceller is
\* already cancelled.
transformRegisteringWhenCancelled ==
  LET cancelled == parentCancelled \/ fnCancelled
      built == constructCorePlaybackObservation(observationRef, positions, speed,
                 manifest, initialPlayPerformed, autoPlay)
  IN /\ setupCount' = setupCount + 1
     /\ linked' = [ signals |-> { "parent", "fn" }, cancelledAtLink |-> cancelled ]
     /\ cancellerCancelled' = cancelled
     /\ newRef' = Def([ value |-> built.value, finished |-> cancelled ])
     /\ positions' = Restrict(built.heap, Reachable(observationRef, newRef'))
     /\ speedCbs' = Append(speedCbs, "emitCorePlaybackObservation")
     /\ observationCbs' =
          IF parentCancelled THEN observationCbs
          ELSE Append(observationCbs, "emitCorePlaybackObservation")

\* A transform whose registration on the base reference replaces the
\* listeners the reference already has.
transformReplacingListeners ==
  LET cancelled == parentCancelled \/ fnCancelled
      built == constructCorePlaybackObservation(observationRef, positions, speed,
                 manifest, initialPlayPerformed, autoPlay)
  IN /\ setupCount' = setupCount + 1
     /\ linked' = [ signals |-> { "parent", "fn" }, cancelledAtLink |-> cancelled ]
     /\ cancellerCancelled' = cancelled
     /\ newRef' = Def([ value |-> built.value, finished |-> cancelled ])
     /\ positions' = Restrict(built.heap, Reachable(observationRef, newRef'))
     /\ speedCbs' =
          IF cancelled THEN speedCbs
          ELSE Append(speedCbs, "emitCorePlaybackObservation")
     /\ observationCbs' =
          IF cancelled THEN observationCbs
          ELSE << "emitCorePlaybackObservation" >>

\* The body of `transform`, run by deriveReadOnlyObserver:
\*   - the canceller is linked to parentObserverCancelSignal and to
\*     fnCancelSignal: it is cancelled at once if one of them already is;
\*   - newRef holds constructCorePlaybackObservation() and is owned by
\*     canceller.signal;
\*   - emitCorePlaybackObservation is registered on speed and on
\*     observationRef (emitCurrentValue: false), until canceller.signal is
\*     cancelled: nothing is registered if it already is.
transform ==
  LET cancelled == parentCancelled \/ fnCancelled
      built == constructCorePlaybackObservation(observationRef, positions, speed,
                 manifest, initialPlayPerformed, autoPlay)
  IN /\ setupCount' = setupCount + 1
     /\ linked' = [ signals |-> { "parent", "fn" }, cancelledAtLink |-> cancelled ]
     /\ cancellerCancelled' = cancelled
     /\ newRef' = Def([ value |-> built.value, finished |-> cancelled ])
     /\ positions' = Restrict(built.heap, Reachable(observationRef, newRef'))
     /\ speedCbs' =
          IF cancelled THEN speedCbs
          ELSE Append(speedCbs, "emitCorePlaybackObservation")
     /\ observationCbs' =
          IF cancelled THEN observationCbs
          ELSE Append(observationCbs, "emitCorePlaybackObservation")

\* srcPlaybackObserver.deriveReadOnlyObserver(transform): `transform` is
\* called once, with the base reference and the base observer's
\* cancellation signal.
deriveReadOnlyObserver == transform

\* createCorePlaybackObserver(srcPlaybackObserver, context, fnCancelSignal).
createCorePlaybackObserver ==
  /\ ~derived
  /\ derived' = TRUE
  /\ deriveReadOnlyObserver
  /\ publishedWanted' = Restrict(publishedWanted, DOMAIN positions')
  /\ UNCHANGED << manifest, autoPlay, initialPlayPerformed, speed,
                  observationRef, parentCancelled, fnCancelled, handlerCount,
                  sourceUpdates, coreListener, srcListener, callVars, workerVars, auxVars >>

Without(cbs, cb) == SelectSeq(cbs, LAMBDA c : c # cb)

\* canceller.cancel(), run by the cleanup linkToSignal registered: the
\* cleanups registered on canceller.signal run in registration order (newRef
\* is finished and releases its listeners, then the handler is removed from
\* speed and from observationRef).
CancelCanceller ==
  IF derived /\ ~cancellerCancelled
    THEN /\ cancellerCancelled' = TRUE
         /\ newRef' = Def([ Val(newRef) EXCEPT !.finished = TRUE ])
         /\ coreListener' = [ coreListener EXCEPT !.registered = FALSE ]
         /\ speedCbs' = Without(speedCbs, "emitCorePlaybackObservation")
    ELSE UNCHANGED << cancellerCancelled, newRef, coreListener, speedCbs >>

\* fnCancelSignal is cancelled: the canceller linked to it is cancelled.
CancelFn ==
  /\ ~fnCancelled
  /\ fnCancelled' = TRUE
  /\ IF "fn" \in linked.signals
       THEN /\ CancelCanceller
            /\ observationCbs' = Without(observationCbs, "emitCorePlaybackObservation")
       ELSE UNCHANGED << cancellerCancelled, newRef, coreListener, speedCbs,
                         observationCbs >>
  /\ UNCHANGED << manifest, autoPlay, initialPlayPerformed, speed, positions,
                  publishedWanted, observationRef, derived, linked, parentCancelled,
                  setupCount, handlerCount, sourceUpdates, srcListener,
                  callVars, workerVars, auxVars >>

\* The base observer's signal is cancelled: the base reference is finished
\* and releases its listeners, and the core observer's canceller, linked to
\* that signal, is cancelled.
CancelParent ==
  /\ ~parentCancelled
  /\ parentCancelled' = TRUE
  /\ IF "parent" \in linked.signals
       THEN CancelCanceller
       ELSE UNCHANGED << cancellerCancelled, newRef, coreListener, speedCbs >>
  /\ observationCbs' = <<>>
  /\ UNCHANGED << manifest, autoPlay, initialPlayPerformed, speed, positions,
                  publishedWanted, observationRef, derived, linked, fnCancelled,
                  setupCount, handlerCount, sourceUpdates, srcListener,
                  callVars, workerVars, auxVars >>

\* listen(cb) on the core observer: nothing is registered once the observer
\* is cancelled; otherwise cb is registered on newRef, without emitting the
\* current value.
ListenCore ==
  /\ derived
  /\ ~coreListener.registered
  /\ ~parentCancelled
  /\ ~Val(newRef).finished
  /\ coreListener' = [ registered |-> TRUE, calls |-> 0, last |-> Undefined ]
  /\ UNCHANGED << manifest, autoPlay, initialPlayPerformed, speed, positions,
                  publishedWanted, observationRef, derived, linked, newRef,
                  parentCancelled, fnCancelled, cancellerCancelled, speedCbs,
                  observationCbs, setupCount, handlerCount, sourceUpdates,
                  srcListener, callVars, workerVars, auxVars >>

\* ------------------------------------------ WorkerPlaybackObserver

\* The content the observer was constructed for (`_contentId`), and another
\* content, loaded before or after it.
ContentId == "A"
ContentIds == { "A", "B" }

NoQuery == [ method |-> "none", result |-> Undefined ]

\* options.includeLastObservation: true, false or absent.
IncludeOptions == { Def(TRUE), Def(FALSE), Undefined }
\* options.clearSignal: absent, or a signal that is cancelled or not.
ClearSignals == { "none", "active", "cancelled" }

NoListen == [ count |-> 0, includeLastObservation |-> Undefined,
              clearSignal |-> "none" ]

\* State set by the constructor: `_src` holds the observation the reference
\* was created with, `_cancelSignal` is not cancelled.
InitWorker ==
  /\ workerSrc = 0
  /\ workerCancelled = FALSE
  /\ inbound = <<>>
  /\ sent = 0
  /\ outbound = <<>>
  /\ workerListener = [ registered |-> FALSE, calls |-> 0, last |-> Undefined ]
  /\ queryResult = NoQuery
  /\ rateRequests = <<>>
  /\ listenCall = NoListen

\* The main thread posts the observation number `sent + 1`, tagged with the
\* content it was made for.
PostObservation ==
  /\ sent < MaxMessages
  /\ \E c \in ContentIds :
       inbound' = Append(inbound, [ contentId |-> c, value |-> sent + 1 ])
  /\ sent' = sent + 1
  /\ UNCHANGED << coreVars, callVars, auxVars, workerSrc, workerCancelled, outbound,
                  workerListener, queryResult, rateRequests, listenCall >>

\* A handler that takes every observation message, whatever its content.
acceptsAnyContent(msg) == TRUE

\* The worker's handler of observation messages takes a message only if it
\* is tagged with the content of the observer.
acceptsMessage(msg) == msg.contentId = ContentId

\* The worker receives the oldest message in flight: a message of the
\* observer's content is set on `_src` (SharedReference.setValue: listeners
\* are called with it, unless the reference is finished); any other message
\* is dropped.
ReceiveObservation ==
  /\ inbound # <<>>
  /\ inbound' = Tail(inbound)
  /\ IF acceptsMessage(Head(inbound)) /\ ~workerCancelled
       THEN /\ workerSrc' = Head(inbound).value
            /\ workerListener' =
                 IF workerListener.registered
                   THEN [ workerListener EXCEPT
                            !.calls = @ + 1, !.last = Def(Head(inbound).value) ]
                   ELSE workerListener
       ELSE UNCHANGED << workerSrc, workerListener >>
  /\ UNCHANGED << coreVars, callVars, auxVars, workerCancelled, sent, outbound,
                  queryResult, rateRequests, listenCall >>

\* getCurrentTime(), getReadyState(), getIsPaused().
getCurrentTime == Undefined
getReadyState == Undefined
getIsPaused == Undefined

\* A getPlaybackRate that answers with the rate last asked for.
getPlaybackRateLastRequested ==
  IF outbound = <<>> THEN Undefined ELSE Def(Last(outbound).value)

\* getPlaybackRate().
getPlaybackRate == Undefined

Query(method, result) ==
  /\ queryResult' = [ method |-> method, result |-> result ]
  /\ UNCHANGED << coreVars, callVars, auxVars, workerSrc, workerCancelled, inbound, sent,
                  outbound, workerListener, rateRequests, listenCall >>

CallGetCurrentTime == Query("getCurrentTime", getCurrentTime)
CallGetReadyState == Query("getReadyState", getReadyState)
CallGetIsPaused == Query("getIsPaused", getIsPaused)
CallGetPlaybackRate == Query("getPlaybackRate", getPlaybackRate)

\* A setPlaybackRate that also applies the rate on its side: it emits an
\* observation to the listeners of `_src`.
setPlaybackRateAppliedLocally ==
  /\ Len(outbound) < MaxMessages
  /\ \E playbackRate \in Speeds :
       /\ rateRequests' = Append(rateRequests, playbackRate)
       /\ outbound' = Append(outbound, [ type |-> "UpdatePlaybackRate",
                                         contentId |-> ContentId,
                                         value |-> playbackRate ])
  /\ workerListener' =
       IF workerListener.registered
         THEN [ workerListener EXCEPT !.calls = @ + 1, !.last = Def(workerSrc) ]
         ELSE workerListener
  /\ UNCHANGED << coreVars, callVars, auxVars, workerSrc, workerCancelled, inbound, sent,
                  queryResult, listenCall >>

\* setPlaybackRate(playbackRate): one UpdatePlaybackRate message is given to
\* sendMessage, with the observer's content.
setPlaybackRate ==
  /\ Len(outbound) < MaxMessages
  /\ \E playbackRate \in Speeds :
       /\ rateRequests' = Append(rateRequests, playbackRate)
       /\ outbound' = Append(outbound, [ type |-> "UpdatePlaybackRate",
                                         contentId |-> ContentId,
                                         value |-> playbackRate ])
  /\ UNCHANGED << coreVars, callVars, auxVars, workerSrc, workerCancelled, inbound, sent,
                  workerListener, queryResult, listenCall >>

\* SharedReference.onUpdate(cb, { emitCurrentValue }) on a reference holding
\* `value`: cb is registered, and called at once with `value` if
\* emitCurrentValue is true.
onUpdate(listener, value, emitCurrentValue) ==
  IF emitCurrentValue = Def(TRUE)
    THEN [ registered |-> TRUE, calls |-> listener.calls + 1, last |-> Def(value) ]
    ELSE [ listener EXCEPT !.registered = TRUE ]

\* A listen that registers without looking at the cancellation signals.
listenWithoutCancelCheck ==
  /\ ~workerListener.registered
  /\ listenCall.count < MaxListens
  /\ \E includeLastObservation \in IncludeOptions, clearSignal \in ClearSignals :
       /\ listenCall' = [ count |-> listenCall.count + 1,
                          includeLastObservation |-> includeLastObservation,
                          clearSignal |-> clearSignal ]
       /\ workerListener' = onUpdate(workerListener, workerSrc, includeLastObservation)
  /\ UNCHANGED << coreVars, callVars, auxVars, workerSrc, workerCancelled, inbound, sent,
                  outbound, queryResult, rateRequests >>

\* A listen that always asks for the current value.
listenAlwaysEmitting ==
  /\ ~workerListener.registered
  /\ listenCall.count < MaxListens
  /\ \E includeLastObservation \in IncludeOptions, clearSignal \in ClearSignals :
       /\ listenCall' = [ count |-> listenCall.count + 1,
                          includeLastObservation |-> includeLastObservation,
                          clearSignal |-> clearSignal ]
       /\ workerListener' =
            IF workerCancelled \/ clearSignal = "cancelled"
              THEN workerListener
              ELSE onUpdate(workerListener, workerSrc, Def(TRUE))
  /\ UNCHANGED << coreVars, callVars, auxVars, workerSrc, workerCancelled, inbound, sent,
                  outbound, queryResult, rateRequests >>

\* listen(cb, options): the call returns at once if `_cancelSignal` or
\* options.clearSignal is cancelled; otherwise cb is registered on `_src`
\* with clearSignal: options.clearSignal and
\* emitCurrentValue: options.includeLastObservation.
listen ==
  /\ ~workerListener.registered
  /\ listenCall.count < MaxListens
  /\ \E includeLastObservation \in IncludeOptions, clearSignal \in ClearSignals :
       /\ listenCall' = [ count |-> listenCall.count + 1,
                          includeLastObservation |-> includeLastObservation,
                          clearSignal |-> clearSignal ]
       /\ workerListener' =
            IF workerCancelled \/ clearSignal = "cancelled"
              THEN workerListener
              ELSE onUpdate(workerListener, workerSrc, includeLastObservation)
  /\ UNCHANGED << coreVars, callVars, auxVars, workerSrc, workerCancelled, inbound, sent,
                  outbound, queryResult, rateRequests >>

\* The clearSignal given to the last listen is cancelled: the cleanup
\* onUpdate registered on it removes cb from `_src`.
CancelClearSignal ==
  /\ listenCall.clearSignal = "active"
  /\ listenCall' = [ listenCall EXCEPT !.clearSignal = "cancelled" ]
  /\ workerListener' = [ workerListener EXCEPT !.registered = FALSE ]
  /\ UNCHANGED << coreVars, callVars, auxVars, workerSrc, workerCancelled, inbound, sent,
                  outbound, queryResult, rateRequests >>

\* `_cancelSignal` is cancelled: `_src`, owned by it, is finished and
\* releases its listeners.
CancelWorker ==
  /\ ~workerCancelled
  /\ workerCancelled' = TRUE
  /\ workerListener' = [ workerListener EXCEPT !.registered = FALSE ]
  /\ UNCHANGED << coreVars, callVars, auxVars, workerSrc, inbound, sent, outbound,
                  queryResult, rateRequests, listenCall >>

\* ------------------------------------------------------ specification

\* ------------------------------------------ TaskCanceller / CancellationSignal

\* The cleanup callbacks given to the signal.
Cleanups == 1..MaxCleanups

\* A signal nobody cancelled yet, without cleanup callback:
\*   callbacks       the cleanups it stores, in registration order
\*   registered      every cleanup given to register, in call order
\*   ran             the cleanups run so far, in the order they ran
\*   cancelCalls     calls of cancel()
\*   transitions     times the signal went from active to cancelled
\*   storedAtCancel  cleanups stored when it was cancelled
ActiveSignal ==
  [ cancelled |-> FALSE, callbacks |-> <<>>, registered |-> <<>>, ran |-> <<>>,
    cancelCalls |-> 0, transitions |-> 0, storedAtCancel |-> 0 ]

\* A register that stores the cleanup whatever the state of the signal.
registerAlwaysStoring ==
  /\ \E cleanup \in Cleanups :
       /\ \A i \in DOMAIN signal.registered : signal.registered[i] # cleanup
       /\ signal' = [ signal EXCEPT !.registered = Append(@, cleanup),
                                    !.callbacks = Append(@, cleanup) ]
  /\ UNCHANGED << coreVars, callVars, workerVars, timing >>

\* register(cleanup): on a cancelled signal the cleanup is run at once and
\* not stored; otherwise it is stored.
register ==
  /\ \E cleanup \in Cleanups :
       /\ \A i \in DOMAIN signal.registered : signal.registered[i] # cleanup
       /\ signal' =
            IF signal.cancelled
              THEN [ signal EXCEPT !.registered = Append(@, cleanup),
                                   !.ran = Append(@, cleanup) ]
              ELSE [ signal EXCEPT !.registered = Append(@, cleanup),
                                   !.callbacks = Append(@, cleanup) ]
  /\ UNCHANGED << coreVars, callVars, workerVars, timing >>

\* A cancel that runs the stored cleanups at every call and keeps them.
cancelAtEveryCall ==
  /\ signal.cancelCalls < MaxCancels
  /\ signal' = [ signal EXCEPT !.cancelCalls = @ + 1,
                               !.cancelled = TRUE,
                               !.transitions = IF signal.cancelled THEN @ ELSE @ + 1,
                               !.storedAtCancel = Len(signal.callbacks),
                               !.ran = @ \o signal.callbacks ]
  /\ UNCHANGED << coreVars, callVars, workerVars, timing >>

\* cancel(): nothing on a cancelled signal; on the first call the signal is
\* marked cancelled, the stored cleanups run in registration order and the
\* list is cleared.
cancel ==
  /\ signal.cancelCalls < MaxCancels
  /\ signal' =
       IF signal.cancelled
         THEN [ signal EXCEPT !.cancelCalls = @ + 1 ]
         ELSE [ signal EXCEPT !.cancelCalls = @ + 1,
                              !.cancelled = TRUE,
                              !.transitions = @ + 1,
                              !.storedAtCancel = Len(signal.callbacks),
                              !.ran = @ \o signal.callbacks,
                              !.callbacks = <<>> ]
  /\ UNCHANGED << coreVars, callVars, workerVars, timing >>

\* ------------------------------------------ getISOBMFFTimingInfos

\* Times and durations that the function may divide by a timescale: even
\* numbers of ticks, so that every rescaling below is exact.
Ticks == { 2 * k : k \in 0..MaxTicks }

\* Timescales of segments and of sidx entries.
Timescales == { 1, 2 }

\* The media data, by what its boxes hold: the base decode time of the tfdt
\* and the duration of the trun, each negative if the box is absent.
Buffers ==
  [ tfdt : { -1, 0, 3 },
    trun : { -1 } \cup 0..(2 * MaxTicks) ]

\* ISegment: time, duration (optional), timescale, timestampOffset (optional).
Segments ==
  [ time : { 0, 2 },
    duration : { Undefined } \cup { Def(d) : d \in Ticks \ { 0 } },
    timescale : Timescales,
    timestampOffset : { Undefined, Def(1) } ]

\* ISidxSegment: time, duration, timescale (optional).
SidxSegment ==
  [ time : { -2, 0, 2 },
    duration : { 0, 2 },
    timescale : { Undefined } \cup { Def(t) : t \in Timescales } ]

\* sidxSegments: null, no entry, one entry, or that entry and a second one.
SidxSegmentLists ==
  { Undefined, Def(<<>>) }
    \cup { Def(<< s >>) : s \in SidxSegment }
    \cup { Def(<< s, [ time |-> 4, duration |-> 2, timescale |-> Def(1) ] >>) :
             s \in { x \in SidxSegment : x.timescale = Def(1) /\ x.duration = 2 } }

\* initInfos: absent, or the timing information of the initialization
\* segment, of which only the timescale is read (0 if it has none).
InitInfos == { Undefined } \cup { Def([ timescale |-> t ]) : t \in { 0, 1, 2 } }

\* The arguments of a call, and the build it runs in (__DEV__).
TimingInputs ==
  [ buffer : Buffers, isChunked : BOOLEAN, segment : Segments,
    sidxSegments : SidxSegmentLists, initInfos : InitInfos, dev : BOOLEAN ]

\* No call was made and no arguments were drawn.
NotParsed == [ called |-> FALSE, input |-> Undefined, result |-> Undefined ]

Abs(x) == IF x < 0 THEN -x ELSE x

Min(a, b) == IF a < b THEN a ELSE b

\* (value / from) * to, exact on the inputs above.
Rescale(value, from, to) == (value * to) \div from

\* `o || 0` on an optional number.
OrZero(o) == IF IsDefined(o) THEN Val(o) ELSE 0

getTrackFragmentDecodeTime(buffer) == buffer.tfdt

getDurationFromTrun(buffer) == buffer.trun

\* __DEV__ in the build the call runs in.
DEV == Val(timing.input).dev

\* The timescale of the result: the one of initInfos if it has one, else
\* the segment's.
resultTimescale(segment, initInfos) ==
  IF IsDefined(initInfos) /\ Val(initInfos).timescale # 0
    THEN Val(initInfos).timescale
    ELSE segment.timescale

\* segmentStart: the start announced by the segment, in the result timescale.
segmentStart(segment, timescale) ==
  IF timescale = segment.timescale
    THEN segment.time
    ELSE Rescale(segment.time, segment.timescale, timescale)

\* segmentDuration: the duration announced by the segment, if any, in the
\* result timescale.
segmentDuration(segment, timescale) ==
  IF timescale = segment.timescale
    THEN segment.duration
    ELSE IF IsDefined(segment.duration)
           THEN Def(Rescale(Val(segment.duration), segment.timescale, timescale))
           ELSE Undefined

\* maxDecodeTimeDelta, in twentieths of a tick:
\* min(timescale * 0.9, segmentDuration / 4), or min(timescale * 0.9, 0.25)
\* for a segment without duration.
maxDecodeTimeDelta(segment, timescale) ==
  Min(18 * timescale,
      IF IsDefined(segment.duration)
        THEN 5 * Val(segmentDuration(segment, timescale))
        ELSE 5)

\* startTime after the tfdt was read: the base decode time, shifted by the
\* timestamp offset, if the tfdt is there.
startTimeFromTfdt(baseDecodeTime, segment, timescale) ==
  IF baseDecodeTime >= 0
    THEN Def(IF IsDefined(segment.timestampOffset)
               THEN baseDecodeTime + Val(segment.timestampOffset) * timescale
               ELSE baseDecodeTime)
    ELSE Undefined

\* A reading of the trun that trusts its duration whenever it is there.
durationFromTrunAlwaysTrusted(trunDuration, segment, timescale) ==
  IF trunDuration >= 0 THEN Def(trunDuration) ELSE Undefined

\* duration after the trun was read: the trun's duration if it is there and
\* the segment announces none or one close enough to it.
durationFromTrun(trunDuration, segment, timescale) ==
  IF /\ trunDuration >= 0
     /\ \/ ~IsDefined(segmentDuration(segment, timescale))
        \/ 20 * Abs(trunDuration - Val(segmentDuration(segment, timescale)))
             <= maxDecodeTimeDelta(segment, timescale)
    THEN Def(trunDuration)
    ELSE Undefined

\* startTime when the tfdt gave none: the start of the first sidx entry if
\* there is one and it is not negative, rescaled and shifted by the
\* timestamp offset; else the segment's start.
startTimeFromSidx(_sidxSegments, segment, timescale) ==
  IF Len(_sidxSegments) = 0
    THEN segmentStart(segment, timescale)
    ELSE LET sidxStart == _sidxSegments[1].time
             sidxTimescale == _sidxSegments[1].timescale
             baseStartTime ==
               IF IsDefined(sidxTimescale) /\ Val(sidxTimescale) # timescale
                 THEN Rescale(sidxStart, Val(sidxTimescale), timescale)
                 ELSE sidxStart
         IN IF sidxStart >= 0
              THEN IF IsDefined(segment.timestampOffset)
                     THEN baseStartTime + Val(segment.timestampOffset) * timescale
                     ELSE baseStartTime
              ELSE segmentStart(segment, timescale)

RECURSIVE sidxDuration(_)
\* _sidxSegments.reduce((a, b) => a + (b.duration || 0), 0)
sidxDuration(_sidxSegments) ==
  IF _sidxSegments = <<>>
    THEN 0
    ELSE Head(_sidxSegments).duration + sidxDuration(Tail(_sidxSegments))

\* duration when the trun gave none: the sum of the sidx entries' durations
\* if there are entries, else the segment's duration, if any.
durationFromSidx(_sidxSegments, segment, timescale) ==
  IF Len(_sidxSegments) # 0
    THEN IF sidxDuration(_sidxSegments) >= 0
           THEN Def(sidxDuration(_sidxSegments))
           ELSE segmentDuration(segment, timescale)
    ELSE segmentDuration(segment, timescale)

\* What a call gives back: null, an assertion error (__DEV__ builds), or
\* the timing information.
NullInfos == [ status |-> "null" ]
AssertionFailed == [ status |-> "throws" ]
ChunkTimingInfos(timescale, time, duration) ==
  [ status |-> "infos", timescale |-> timescale, time |-> time,
    duration |-> duration ]

\* The part of the function run on a segment that is not chunked.
wholeSegmentTimingInfos(buffer, segment, sidxSegments, initInfos) ==
  LET _sidxSegments == IF IsDefined(sidxSegments) THEN Val(sidxSegments) ELSE <<>>
      baseDecodeTime == getTrackFragmentDecodeTime(buffer)
      trunDuration == getDurationFromTrun(buffer)
      timescale == resultTimescale(segment, initInfos)
      tfdtStart == startTimeFromTfdt(baseDecodeTime, segment, timescale)
      trunBased == durationFromTrun(trunDuration, segment, timescale)
      startTime == IF IsDefined(tfdtStart)
                     THEN Val(tfdtStart)
                     ELSE startTimeFromSidx(_sidxSegments, segment, timescale)
      duration == IF IsDefined(trunBased)
                    THEN trunBased
                    ELSE durationFromSidx(_sidxSegments, segment, timescale)
  IN IF DEV /\ ~IsDefined(duration)
       THEN AssertionFailed
       ELSE ChunkTimingInfos(timescale, startTime, Def(OrZero(duration)))

\* A function that shifts the base decode time of a chunk by the segment's
\* timestamp offset, as it does for a whole segment.
getISOBMFFTimingInfosShiftingChunks(buffer, isChunked, segment, sidxSegments, initInfos) ==
  IF isChunked
    THEN IF getTrackFragmentDecodeTime(buffer) < 0 \/ ~IsDefined(initInfos)
           THEN NullInfos
           ELSE ChunkTimingInfos(
                  Val(initInfos).timescale,
                  Val(startTimeFromTfdt(getTrackFragmentDecodeTime(buffer), segment,
                                        Val(initInfos).timescale)),
                  Undefined)
    ELSE wholeSegmentTimingInfos(buffer, segment, sidxSegments, initInfos)

\* getISOBMFFTimingInfos(buffer, isChunked, segment, sidxSegments, initInfos).
getISOBMFFTimingInfos(buffer, isChunked, segment, sidxSegments, initInfos) ==
  IF isChunked
    THEN IF getTrackFragmentDecodeTime(buffer) < 0 \/ ~IsDefined(initInfos)
           THEN NullInfos
           ELSE ChunkTimingInfos(Val(initInfos).timescale,
                                 getTrackFragmentDecodeTime(buffer),
                                 Undefined)
    ELSE wholeSegmentTimingInfos(buffer, segment, sidxSegments, initInfos)

\* One call of the function on the arguments drawn at the start.
CallGetISOBMFFTimingInfos ==
  /\ IsDefined(timing.input)
  /\ ~timing.called
  /\ LET args == Val(timing.input)
     IN timing' =
          [ timing EXCEPT
              !.called = TRUE,
              !.result = Def(getISOBMFFTimingInfos(args.buffer, args.isChunked,
                               args.segment, args.sidxSegments, args.initInfos)) ]
  /\ UNCHANGED << coreVars, callVars, workerVars, signal >>

\* The signal and the timing call, before anything used them.
InitAux ==
  /\ signal = ActiveSignal
  /\ timing = NotParsed

NotCalled == [ called |-> FALSE, initialPlayPerformed |-> FALSE,
               autoPlay |-> FALSE, result |-> Undefined ]

\* The base observer exists and has published its first observation; a
\* listener is registered on it; nothing is derived yet.
Init ==
  /\ manifest \in CoreManifests
  /\ autoPlay \in BOOLEAN
  /\ initialPlayPerformed = FALSE
  /\ speed = 1
  /\ \E w \in CoreWanted, b \in CoreBuffered :
       /\ observationRef = BaseObservation(0, MaxTime, Sample(b))
       /\ positions = (0 :> w)
       /\ publishedWanted = (0 :> w)
  /\ derived = FALSE
  /\ linked = NotLinked
  /\ newRef = Undefined
  /\ parentCancelled = FALSE
  /\ fnCancelled = FALSE
  /\ cancellerCancelled = FALSE
  /\ speedCbs = <<>>
  /\ observationCbs = << "srcListener" >>
  /\ setupCount = 0
  /\ handlerCount = 0
  /\ sourceUpdates = 0
  /\ coreListener = [ registered |-> FALSE, calls |-> 0, last |-> Undefined ]
  /\ srcListener = [ calls |-> 0, wanted |-> Undefined ]
  /\ calls = <<>>
  /\ pendingCall = NotCalled
  /\ InitWorker
  /\ InitAux

Next ==
  \/ createCorePlaybackObserver
  \/ UpdateBaseObservation
  \/ UpdateSpeed
  \/ UpdateManifest
  \/ PerformInitialPlay
  \/ CancelFn
  \/ CancelParent
  \/ ListenCore

Spec == Init /\ [][Next]_vars


\* --------------------------------- specification of the exported functions
\* updateWantedPositionIfAfterManifest and getPendingPaused are exported and
\* called on their own: here on every manifest and observation of the bounds.

\* updateWantedPositionIfAfterManifest(observation, manifest), on the
\* observation held by observationRef.  `calls` keeps the wanted position
\* read after each call.
ApplyWantedPositionCorrection ==
  /\ Len(calls) < MaxCalls
  /\ positions' = [ positions EXCEPT ![observationRef.position] =
       updateWantedPositionIfAfterManifest(Resolve(observationRef, positions),
                                           manifest) ]
  /\ calls' = Append(calls, positions'[observationRef.position])
  /\ UNCHANGED << manifest, autoPlay, initialPlayPerformed, speed,
                  publishedWanted, observationRef, derived, linked, newRef,
                  parentCancelled, fnCancelled, cancellerCancelled, speedCbs,
                  observationCbs, setupCount, handlerCount, sourceUpdates,
                  coreListener, srcListener, pendingCall, workerVars, auxVars >>

\* getPendingPaused(initialPlayPerformed, autoPlay).
QueryPendingPaused ==
  /\ pendingCall' = [ called |-> TRUE,
                      initialPlayPerformed |-> initialPlayPerformed,
                      autoPlay |-> autoPlay,
                      result |-> getPendingPaused(initialPlayPerformed, autoPlay) ]
  /\ UNCHANGED << coreVars, calls, workerVars, auxVars >>

\* The reference given to getPendingPaused is updated.
SetInitialPlayPerformed ==
  /\ \E v \in BOOLEAN \ { initialPlayPerformed } : initialPlayPerformed' = v
  /\ UNCHANGED << manifest, autoPlay, speed, positions, publishedWanted,
                  observationRef, derived, linked, newRef, parentCancelled, fnCancelled,
                  cancellerCancelled, speedCbs, observationCbs, setupCount,
                  handlerCount, sourceUpdates, coreListener, srcListener,
                  callVars, workerVars, auxVars >>

InitCalls ==
  /\ manifest \in Manifests
  /\ autoPlay \in BOOLEAN
  /\ initialPlayPerformed = FALSE
  /\ speed = 1
  /\ \E w \in WantedPositions, b \in BufferedRanges, d \in Durations :
       /\ observationRef = BaseObservation(0, d, Sample(b))
       /\ positions = (0 :> w)
       /\ publishedWanted = (0 :> w)
  /\ derived = FALSE
  /\ linked = NotLinked
  /\ newRef = Undefined
  /\ parentCancelled = FALSE
  /\ fnCancelled = FALSE
  /\ cancellerCancelled = FALSE
  /\ speedCbs = <<>>
  /\ observationCbs = <<>>
  /\ setupCount = 0
  /\ handlerCount = 0
  /\ sourceUpdates = 0
  /\ coreListener = [ registered |-> FALSE, calls |-> 0, last |-> Undefined ]
  /\ srcListener = [ calls |-> 0, wanted |-> Undefined ]
  /\ calls = <<>>
  /\ pendingCall = NotCalled
  /\ InitWorker
  /\ InitAux

NextCalls ==
  \/ ApplyWantedPositionCorrection
  \/ QueryPendingPaused
  \/ SetInitialPlayPerformed

SpecCalls == InitCalls /\ [][NextCalls]_vars


\* ------------------------------------------------------------- claims

\* The observation and the manifest a direct call was made on: the manifest
\* does not change under SpecCalls, and publishedWanted keeps the wanted
\* position the observation had before the first call.
LastPeriod == Last(manifest.periods)
WantedBeforeCalls == publishedWanted[observationRef.position]
LastPeriodEndKnown ==
  /\ (~manifest.isDynamic) \/ manifest.isLastPeriodKnown
  /\ Len(manifest.periods) > 0
  /\ IsDefined(LastPeriod.end)
BufferedShort ==
  \/ observationRef.buffered = <<>>
  \/ Last(observationRef.buffered).end < observationRef.duration - OneSecond
\* The wanted position lies in the period, at most one second before its end.
WithinLastSecond(w) ==
  /\ w >= LastPeriod.start
  /\ w >= Val(LastPeriod.end) - OneSecond
  /\ w <= Val(LastPeriod.end)

\* C1: when the manifest is not dynamic or its last period is known, the
\* last period has a known end, the wanted position is within the last
\* second of that period and the buffered ranges are empty or end below
\* (duration - 1), the wanted position after
\* updateWantedPositionIfAfterManifest equals (last period end - 1).
C1_CorrectionApplied ==
  ( /\ Len(calls) >= 1
    /\ LastPeriodEndKnown
    /\ WithinLastSecond(WantedBeforeCalls)
    /\ BufferedShort )
  => calls[1] = Val(LastPeriod.end) - OneSecond

\* C1 witness: a finished content of one period [0, MaxTime), a wanted
\* position half a second before its end, buffered ranges ending more than a
\* second before the duration: the position was moved.
C1_Witness ==
  /\ Len(calls) >= 1
  /\ manifest = StaticManifest(MaxTime)
  /\ WantedBeforeCalls = MaxTime - 1
  /\ observationRef.buffered = << Range(0, 1) >>
  /\ observationRef.duration = MaxTime
  /\ calls[1] = MaxTime - OneSecond
  /\ calls[1] # WantedBeforeCalls

\* C2 as stated: outside the conditions of C1 (the wanted position "within
\* the last second of the last period"), the call leaves the wanted position
\* unchanged.
C2_Original ==
  ( /\ Len(calls) >= 1
    /\ ~( /\ LastPeriodEndKnown
          /\ WithinLastSecond(WantedBeforeCalls)
          /\ BufferedShort ) )
  => calls[1] = WantedBeforeCalls

\* C2 amended: the call leaves the wanted position unchanged if the manifest
\* is dynamic with an unknown last period, or there is no last period or its
\* end is unknown, or the wanted position is before the last period's start
\* or more than one second before its end, or the buffered ranges reach at
\* least (duration - 1).  (A wanted position after the period's end is
\* corrected like one in its last second.)
C2_CorrectionOnlyUnderConditions ==
  ( /\ Len(calls) >= 1
    /\ \/ manifest.isDynamic /\ ~manifest.isLastPeriodKnown
       \/ Len(manifest.periods) = 0
       \/ ~IsDefined(LastPeriod.end)
       \/ WantedBeforeCalls < LastPeriod.start
       \/ WantedBeforeCalls < Val(LastPeriod.end) - OneSecond
       \/ /\ observationRef.buffered # <<>>
          /\ Last(observationRef.buffered).end
               >= observationRef.duration - OneSecond )
  => calls[1] = WantedBeforeCalls

\* C2 witness: everything asks for the correction but the buffered ranges,
\* which end half a second before the duration: the position is kept.
C2_Witness ==
  /\ Len(calls) >= 1
  /\ manifest = StaticManifest(MaxTime)
  /\ WantedBeforeCalls = MaxTime - 1
  /\ observationRef.buffered = << Range(0, MaxTime - 1) >>
  /\ observationRef.duration = MaxTime
  /\ calls[1] = WantedBeforeCalls

\* C4: getPendingPaused returns undefined whenever initialPlayPerformed
\* holds true, whatever autoPlay is, and the negation of autoPlay whenever
\* it holds false.
C4_PendingPaused ==
  pendingCall.called =>
    /\ pendingCall.initialPlayPerformed => pendingCall.result = Undefined
    /\ (~pendingCall.initialPlayPerformed /\ pendingCall.autoPlay)
         => pendingCall.result = Def(FALSE)
    /\ (~pendingCall.initialPlayPerformed /\ ~pendingCall.autoPlay)
         => pendingCall.result = Def(TRUE)

\* C4 witness: a call made once the initial play was performed, autoPlay
\* being false.
C4_Witness ==
  /\ pendingCall.called
  /\ pendingCall.initialPlayPerformed
  /\ ~pendingCall.autoPlay
  /\ pendingCall.result = Undefined


\* C3: no field of an observation already published on a reference (the
\* base observation held by the source reference, a core observation
\* published before) is changed in place by the core observation builder:
\* every position object still reads the wanted position it was published
\* with.
C3_PublishedObservationsImmutable ==
  \A id \in DOMAIN positions : positions[id] = publishedWanted[id]

\* C5: once the initial play has been performed, the core observation held
\* by the core reference has paused.pending undefined.
C5_PendingUndefinedOncePlayed ==
  (derived /\ initialPlayPerformed)
    => Val(newRef).value.paused.pending = Undefined

\* A step in which a source reference (base observation or speed) is set.
SourceUpdateStep == sourceUpdates' = sourceUpdates + 1

\* C6: while the core observer is not cancelled, a listener registered on
\* the core reference is called exactly once in each update of the base
\* observation or of speed, inside that update and with the observation
\* built from it, and in no other step.
C6_ExactPropagation ==
  [][ (coreListener.registered /\ coreListener'.registered) =>
        /\ SourceUpdateStep =>
             /\ coreListener'.calls = coreListener.calls + 1
             /\ coreListener'.last = Def(Val(newRef').value)
             /\ Val(coreListener'.last).speed = speed'
             /\ Val(coreListener'.last).position = observationRef'.position
             /\ Val(coreListener'.last).bufferGap = observationRef'.bufferGap
        /\ ~SourceUpdateStep => coreListener' = coreListener ]_vars

\* C6 witness: the listener was called for two updates, one of the base
\* observation and one of speed.
C6_Witness ==
  /\ coreListener.registered
  /\ ~cancellerCancelled
  /\ coreListener.calls = 2
  /\ sourceUpdates = 2
  /\ Val(coreListener.last).speed = 2
  /\ Val(coreListener.last).position = 1

\* A step in which a core observation is constructed.
ConstructionStep ==
  \/ setupCount' # setupCount
  \/ handlerCount' # handlerCount

\* C7: every core observation published, the initial one and each rebuilt
\* one, has maximumPosition equal to the manifest's maximum safe position at
\* the moment it is constructed.
C7_MaximumPositionFromManifest ==
  [][ ConstructionStep =>
        Val(newRef').value.maximumPosition = manifest'.maximumSafePosition ]_vars

\* C7 witness: an observation rebuilt by the handler carries the maximum
\* position of a manifest shorter than the content's duration.
C7_Witness ==
  /\ handlerCount >= 1
  /\ ~cancellerCancelled
  /\ manifest = StaticManifest(MaxTime - 1)
  /\ Val(newRef).value.maximumPosition = MaxTime - 1
  /\ Val(newRef).value.duration = MaxTime

\* C8: the setup body of the transform runs exactly once per derivation;
\* over later source updates only the registered handler runs, at most once
\* per source update.
C8_SetupOnce ==
  /\ setupCount = (IF derived THEN 1 ELSE 0)
  /\ handlerCount <= sourceUpdates
  /\ ~derived => handlerCount = 0

\* C8 witness: after the derivation the handler ran for two source updates.
C8_Witness ==
  /\ derived
  /\ setupCount = 1
  /\ handlerCount = 2


\* ------------------------------------ specification of the worker observer

InitWorkerSpec ==
  /\ manifest = LiveManifest
  /\ autoPlay = FALSE
  /\ initialPlayPerformed = FALSE
  /\ speed = 1
  /\ observationRef = BaseObservation(0, MaxTime, Starved)
  /\ positions = (0 :> 0)
  /\ publishedWanted = (0 :> 0)
  /\ derived = FALSE
  /\ linked = NotLinked
  /\ newRef = Undefined
  /\ parentCancelled = FALSE
  /\ fnCancelled = FALSE
  /\ cancellerCancelled = FALSE
  /\ speedCbs = <<>>
  /\ observationCbs = <<>>
  /\ setupCount = 0
  /\ handlerCount = 0
  /\ sourceUpdates = 0
  /\ coreListener = [ registered |-> FALSE, calls |-> 0, last |-> Undefined ]
  /\ srcListener = [ calls |-> 0, wanted |-> Undefined ]
  /\ calls = <<>>
  /\ pendingCall = NotCalled
  /\ InitWorker
  /\ InitAux

NextWorker ==
  \/ PostObservation
  \/ ReceiveObservation
  \/ CallGetCurrentTime
  \/ CallGetReadyState
  \/ CallGetIsPaused
  \/ CallGetPlaybackRate
  \/ setPlaybackRate
  \/ listen
  \/ CancelClearSignal
  \/ CancelWorker

SpecWorker == InitWorkerSpec /\ [][NextWorker]_vars

\* C9: a message tagged with a content other than the observer's leaves the
\* value of its reference unchanged and calls no listener, wherever it
\* stands among the messages of the observer's content.
C9_StaleContentRejected ==
  [][ (inbound # <<>> /\ inbound' = Tail(inbound)
         /\ Head(inbound).contentId # ContentId)
      => /\ workerSrc' = workerSrc
         /\ workerListener' = workerListener ]_vars

\* C9 witness: the first message was taken, the second was received later
\* by a live observer with a listener and changed nothing.
C9_Witness ==
  /\ sent = 2
  /\ inbound = <<>>
  /\ ~workerCancelled
  /\ workerListener.registered
  /\ workerListener.calls = 1
  /\ workerSrc = 1

\* C10: getCurrentTime, getReadyState, getIsPaused and getPlaybackRate return
\* undefined in every state, whatever observation was received, whatever
\* rate was asked for and whether or not the observer is cancelled.
C10_QueriesUndefined == queryResult.result = Undefined

\* C10 witness: getPlaybackRate is asked on a cancelled observer that
\* received an observation and forwarded a rate.
C10_Witness ==
  /\ queryResult.method = "getPlaybackRate"
  /\ queryResult.result = Undefined
  /\ outbound # <<>>
  /\ workerSrc >= 1
  /\ workerCancelled

\* A step in which listen is called.
ListenStep == listenCall'.count = listenCall.count + 1

\* C11: a call of setPlaybackRate(rate) appends exactly one message
\* UpdatePlaybackRate with the observer's content and the given rate to the
\* messages sent to the main thread, completes in that step, and leaves the
\* value of the backing reference, the messages in flight towards the
\* worker and the listener as they were; nothing else sends a message.
C11_OneRateMessage ==
  [][ /\ (rateRequests' # rateRequests)
           => /\ outbound' = Append(outbound,
                                    [ type |-> "UpdatePlaybackRate",
                                      contentId |-> ContentId,
                                      value |-> Last(rateRequests') ])
              /\ workerSrc' = workerSrc
              /\ workerListener' = workerListener
              /\ inbound' = inbound
      /\ (outbound' # outbound)
           => Len(rateRequests') = Len(rateRequests) + 1 ]_vars

\* C11 witness: two different rates were asked of an observer that has a
\* listener and received an observation; both messages are out.
C11_Witness ==
  /\ Len(outbound) = 2
  /\ outbound[1].value # outbound[2].value
  /\ rateRequests = << outbound[1].value, outbound[2].value >>
  /\ workerListener.registered
  /\ workerSrc >= 1

\* C12: a call of listen made when the observer's own signal or the
\* clearSignal of the call is already cancelled returns without registering
\* or calling the callback, whatever includeLastObservation is, and a
\* callback that is not registered is not called by any later step.
C12_ListenCancelledNoOp ==
  [][ /\ (ListenStep /\ (workerCancelled \/ listenCall'.clearSignal = "cancelled"))
           => /\ workerListener' = workerListener
              /\ workerSrc' = workerSrc
      /\ (~workerListener.registered /\ ~workerListener'.registered)
           => workerListener'.calls = workerListener.calls ]_vars

\* C12 witness: listen was called with includeLastObservation true and a
\* cancelled clearSignal on a live observer whose reference holds a received
\* observation; the callback was neither registered nor called.
C12_Witness ==
  /\ listenCall.count >= 1
  /\ listenCall.includeLastObservation = Def(TRUE)
  /\ listenCall.clearSignal = "cancelled"
  /\ ~workerCancelled
  /\ workerSrc >= 1
  /\ ~workerListener.registered
  /\ workerListener.calls = 0

\* C15: a call of listen on a live observer with includeLastObservation true
\* calls the callback once, within the call, with the value the reference
\* holds at that time; with false or absent the callback is registered and
\* not called. Every other call of the callback is made by a later update,
\* to a callback registered before it, with the value of that update.
C15_CurrentValueEmission ==
  [][ /\ (ListenStep /\ ~workerCancelled /\ listenCall'.clearSignal # "cancelled")
           => workerListener' =
                IF listenCall'.includeLastObservation = Def(TRUE)
                  THEN [ registered |-> TRUE,
                         calls |-> workerListener.calls + 1,
                         last |-> Def(workerSrc) ]
                  ELSE [ workerListener EXCEPT !.registered = TRUE ]
      /\ (workerListener'.calls # workerListener.calls)
           => /\ workerListener'.calls = workerListener.calls + 1
              /\ \/ /\ ListenStep
                    /\ listenCall'.includeLastObservation = Def(TRUE)
                    /\ workerListener'.last = Def(workerSrc)
                 \/ /\ ~ListenStep
                    /\ workerListener.registered
                    /\ inbound # <<>>
                    /\ inbound' = Tail(inbound)
                    /\ workerSrc' = Head(inbound).value
                    /\ workerListener'.last = Def(workerSrc') ]_vars

\* C15 witness: the only call of the callback is the one listen made with
\* the observation the reference held when it was called.
C15_Witness ==
  /\ listenCall.count = 1
  /\ listenCall.includeLastObservation = Def(TRUE)
  /\ workerListener.registered
  /\ workerListener.calls = 1
  /\ workerSrc >= 1
  /\ workerListener.last = Def(workerSrc)
  /\ inbound = <<>>

\* C15, second case: a callback registered without includeLastObservation
\* after an update was not called.
C15_WitnessNotEmitted ==
  /\ listenCall.count = 1
  /\ listenCall.includeLastObservation # Def(TRUE)
  /\ workerListener.registered
  /\ workerListener.calls = 0
  /\ workerSrc >= 1

\* The core observer was derived and one of the two signals its canceller
\* depends on is cancelled.
CoreCancelled == derived /\ (parentCancelled \/ fnCancelled)

\* emitCorePlaybackObservation is registered neither on speed nor on the
\* base reference.
CoreHandlersUnregistered ==
  /\ ~Registered(speedCbs, "emitCorePlaybackObservation")
  /\ ~Registered(observationCbs, "emitCorePlaybackObservation")

\* C13: in the state a cancellation of parentObserverCancelSignal or of
\* fnCancelSignal leaves, the core observer's handler is registered neither
\* on the base reference nor on speed and the core reference is finished
\* without listener; from then on no step runs the handler, changes the
\* core reference or calls a listener of it.
C13_HierarchicalCancellation ==
  [][ /\ CoreCancelled'
           => /\ CoreHandlersUnregistered'
              /\ cancellerCancelled'
              /\ Val(newRef').finished
              /\ ~coreListener'.registered
      /\ CoreCancelled
           => /\ newRef' = newRef
              /\ coreListener' = coreListener
              /\ handlerCount' = handlerCount ]_vars

\* C13 witness: fnCancelSignal was cancelled on an observer that had a
\* listener and had published a rebuilt observation; a later base update
\* reached the source's listener and not the core observer.
C13_Witness ==
  /\ derived
  /\ fnCancelled
  /\ ~parentCancelled
  /\ ~linked.cancelledAtLink
  /\ coreListener.calls >= 1
  /\ handlerCount < sourceUpdates
  /\ handlerCount = coreListener.calls
  /\ Val(newRef).value.position < observationRef.position

\* C14: cancelling fnCancelSignal leaves parentObserverCancelSignal as it
\* was, and the reverse; as long as the base observer's signal is not
\* cancelled, the source's own listener stays registered and is called by
\* every update of the base observation, whether or not the core observer
\* is cancelled.
C14_NoUpwardPropagation ==
  [][ /\ (fnCancelled' # fnCancelled) => parentCancelled' = parentCancelled
      /\ (parentCancelled' # parentCancelled) => fnCancelled' = fnCancelled
      /\ (cancellerCancelled' # cancellerCancelled)
           => \/ /\ fnCancelled' = fnCancelled
                 /\ parentCancelled' = parentCancelled
              \/ (fnCancelled' /\ ~fnCancelled)
              \/ (parentCancelled' /\ ~parentCancelled)
      /\ ~parentCancelled'
           => Registered(observationCbs', "srcListener")
      /\ (observationRef' # observationRef)
           => srcListener'.calls = srcListener.calls + 1 ]_vars

\* C14 witness: after fnCancelSignal was cancelled the base observer is
\* live and its listener received an update the core observer did not.
C14_Witness ==
  /\ derived
  /\ fnCancelled
  /\ cancellerCancelled
  /\ ~parentCancelled
  /\ ~linked.cancelledAtLink
  /\ srcListener.calls = sourceUpdates
  /\ srcListener.calls > handlerCount
  /\ handlerCount >= 1

NextSignal ==
  \/ register
  \/ cancel

SpecSignal == InitWorkerSpec /\ [][NextSignal]_vars

\* C16: a signal is cancelled exactly when cancel() was called, and went
\* from active to cancelled once, however many calls were made; before that
\* no cleanup has run and every registered cleanup is stored; after that
\* nothing is stored and the cleanups that ran are exactly the registered
\* ones, each once, in registration order: the ones stored at cancellation
\* ran then, every later one within its registration.
C16_CleanupsRunOnce ==
  /\ signal.transitions = (IF signal.cancelled THEN 1 ELSE 0)
  /\ signal.cancelled <=> (signal.cancelCalls >= 1)
  /\ ~signal.cancelled => (signal.ran = <<>> /\ signal.callbacks = signal.registered)
  /\ signal.cancelled => (signal.ran = signal.registered /\ signal.callbacks = <<>>)
  /\ \A i, j \in DOMAIN signal.ran : (i # j) => (signal.ran[i] # signal.ran[j])

\* C16 witness: two cleanups were stored when the signal was cancelled, a
\* third one was registered afterwards, and cancel() was called twice.
C16_Witness ==
  /\ signal.cancelCalls = 2
  /\ signal.storedAtCancel = 2
  /\ Len(signal.ran) = 3
  /\ signal.ran[1] > signal.ran[2]

\* ------------------------------------------ getISOBMFFTimingInfos alone

InitTiming ==
  /\ manifest = LiveManifest
  /\ autoPlay = FALSE
  /\ initialPlayPerformed = FALSE
  /\ speed = 1
  /\ observationRef = BaseObservation(0, MaxTime, Starved)
  /\ positions = (0 :> 0)
  /\ publishedWanted = (0 :> 0)
  /\ derived = FALSE
  /\ linked = NotLinked
  /\ newRef = Undefined
  /\ parentCancelled = FALSE
  /\ fnCancelled = FALSE
  /\ cancellerCancelled = FALSE
  /\ speedCbs = <<>>
  /\ observationCbs = <<>>
  /\ setupCount = 0
  /\ handlerCount = 0
  /\ sourceUpdates = 0
  /\ coreListener = [ registered |-> FALSE, calls |-> 0, last |-> Undefined ]
  /\ srcListener = [ calls |-> 0, wanted |-> Undefined ]
  /\ calls = <<>>
  /\ pendingCall = NotCalled
  /\ InitWorker
  /\ signal = ActiveSignal
  /\ \E args \in TimingInputs :
       timing = [ called |-> FALSE, input |-> Def(args), result |-> Undefined ]

NextTiming == CallGetISOBMFFTimingInfos

SpecTiming == InitTiming /\ [][NextTiming]_vars

\* The arguments and the result of the call made.
TimingArgs == Val(timing.input)
TimingResult == Val(timing.result)

\* The function was called on a segment that is not chunked and gave
\* timing information back.
WholeSegmentParsed ==
  /\ timing.called
  /\ ~TimingArgs.isChunked
  /\ TimingResult.status = "infos"

\* The sidx entries given to the call.
GivenSidxSegments ==
  IF IsDefined(TimingArgs.sidxSegments) THEN Val(TimingArgs.sidxSegments) ELSE <<>>

\* C18: on a segment that is not chunked, the start is the one of the tfdt
\* and the duration the one of the trun when both boxes are there; when one
\* of them is missing, both the start and the duration are those of the
\* sidx, if it has entries; else both are the segment's.
C18_DocumentedFallbackOrder ==
  WholeSegmentParsed =>
    LET args == TimingArgs
        timescale == TimingResult.timescale
        tfdtStart == startTimeFromTfdt(args.buffer.tfdt, args.segment, timescale)
    IN IF args.buffer.tfdt >= 0 /\ args.buffer.trun >= 0
         THEN /\ TimingResult.time = Val(tfdtStart)
              /\ TimingResult.duration = Def(args.buffer.trun)
         ELSE IF Len(GivenSidxSegments) # 0
                THEN /\ TimingResult.time =
                          startTimeFromSidx(GivenSidxSegments, args.segment, timescale)
                     /\ TimingResult.duration =
                          Def(sidxDuration(GivenSidxSegments))
                ELSE /\ TimingResult.time = segmentStart(args.segment, timescale)
                     /\ TimingResult.duration =
                          Def(OrZero(segmentDuration(args.segment, timescale)))

\* C20: a call on a chunk gives null exactly when the tfdt is absent or
\* initInfos is; otherwise it gives the base decode time of the tfdt as
\* time, no duration and the timescale of initInfos, whatever the segment
\* and the sidx entries are.
C20_ChunkedMode ==
  (timing.called /\ TimingArgs.isChunked) =>
    IF TimingArgs.buffer.tfdt < 0 \/ TimingArgs.initInfos = Undefined
      THEN TimingResult = NullInfos
      ELSE TimingResult =
             [ status |-> "infos",
               timescale |-> Val(TimingArgs.initInfos).timescale,
               time |-> TimingArgs.buffer.tfdt,
               duration |-> Undefined ]

\* C20 witness: a chunk with a tfdt was parsed for a segment that has a
\* timestamp offset, a duration and sidx entries.
C20_Witness ==
  /\ timing.called
  /\ TimingArgs.isChunked
  /\ TimingResult.status = "infos"
  /\ TimingResult.time = 3
  /\ IsDefined(TimingArgs.segment.timestampOffset)
  /\ IsDefined(TimingArgs.segment.duration)
  /\ Len(GivenSidxSegments) = 2
  /\ TimingArgs.buffer.trun >= 0

\* C20, second case: no timing information for a chunk without tfdt.
C20_WitnessNull ==
  /\ timing.called
  /\ TimingArgs.isChunked
  /\ TimingResult = NullInfos
  /\ TimingArgs.buffer.tfdt < 0
  /\ IsDefined(TimingArgs.initInfos)

\* The function was called on a segment that is not chunked.
WholeSegmentCall == timing.called /\ ~TimingArgs.isChunked

\* The segment's duration in the timescale of the result, if announced.
AnnouncedDuration == segmentDuration(TimingArgs.segment, TimingResult.timescale)

\* The trun's duration is there and the segment announces no duration, or
\* one that differs from it by at most
\* min(0.9 * timescale, announced duration / 4) (compared in twentieths).
TrunPlausible ==
  /\ TimingArgs.buffer.trun >= 0
  /\ \/ ~IsDefined(TimingArgs.segment.duration)
     \/ 20 * Abs(TimingArgs.buffer.trun - Val(AnnouncedDuration))
          <= Min(18 * TimingResult.timescale, 5 * Val(AnnouncedDuration))

\* The duration the call is to give: the trun's if plausible, else the sum
\* of the sidx entries' durations if there are entries, else the segment's
\* announced duration, 0 if it announces none.
ExpectedDuration ==
  IF TrunPlausible
    THEN TimingArgs.buffer.trun
    ELSE IF Len(GivenSidxSegments) # 0
           THEN sidxDuration(GivenSidxSegments)
           ELSE OrZero(AnnouncedDuration)

\* Nothing gives a duration: no plausible trun, no sidx entry, no duration
\* announced by the segment.
NoDurationKnown ==
  /\ TimingArgs.buffer.trun < 0
  /\ Len(GivenSidxSegments) = 0
  /\ ~IsDefined(TimingArgs.segment.duration)

C21_WitnessAtMargin ==
  /\ WholeSegmentCall
  /\ TimingResult.status = "infos"
  /\ IsDefined(TimingArgs.segment.duration)
  /\ TimingArgs.buffer.trun # Val(AnnouncedDuration)
  /\ TimingResult.duration = Def(TimingArgs.buffer.trun)
C21_WitnessNothingKnown ==
  /\ WholeSegmentCall
  /\ ~DEV
  /\ NoDurationKnown
  /\ TimingResult.status = "infos"
  /\ TimingResult.duration = Def(0)
C21_WitnessAssertion ==
  /\ WholeSegmentCall
  /\ DEV
  /\ NoDurationKnown
  /\ TimingResult = AssertionFailed

\* The core reference holds a snapshot of the two source references: the
\* fields copied from a base observation are those of the value held by
\* observationRef, and the speed is the value held by speed.
SnapshotOfSources ==
  LET core == Val(newRef).value
  IN /\ core.bufferGap = observationRef.bufferGap
     /\ core.position = observationRef.position
     /\ core.duration = observationRef.duration
     /\ core.rebuffering = observationRef.rebuffering
     /\ core.freezing = observationRef.freezing
     /\ core.paused.last = observationRef.paused
     /\ core.readyState = observationRef.readyState
     /\ core.speed = speed

\* C22: in the state a construction leaves (the derivation or a run of the
\* handler), the core observation is a snapshot of the values then held by
\* observationRef and by speed; a run of the handler for a speed update,
\* which leaves observationRef as it was, changes none of the fields copied
\* from the base observation.
C22_CoherentSnapshot ==
  [][ /\ ConstructionStep => SnapshotOfSources'
      /\ (handlerCount' # handlerCount /\ observationRef' = observationRef
            /\ ~Val(newRef).finished)
           => Val(newRef').value =
                [ Val(newRef).value EXCEPT
                    !.speed = speed',
                    !.maximumPosition = getMaximumSafePosition(manifest'),
                    !.paused = [ last |-> observationRef.paused,
                                 pending |-> getPendingPaused(initialPlayPerformed',
                                                              autoPlay') ] ] ]_vars

\* C22 witness: after an update of the base observation to one with data
\* buffered and an update of speed, the core observation carries the fields
\* of that base observation and the new speed.
C22_Witness ==
  /\ derived
  /\ ~cancellerCancelled
  /\ sourceUpdates = 2
  /\ handlerCount = 2
  /\ observationRef.position = 1
  /\ observationRef.freezing
  /\ speed = 2
  /\ SnapshotOfSources

\* C23: a second call of updateWantedPositionIfAfterManifest on the same
\* observation, with the same manifest, buffered ranges and duration,
\* leaves the wanted position as the first call left it.
C23_CorrectionIdempotent ==
  Len(calls) >= 2 => calls[2] = calls[1]

\* C23 witness: the first call moved the wanted position, from beyond the
\* end of the last period, and the second call was made.
C23_Witness ==
  /\ Len(calls) = 2
  /\ LastPeriodEndKnown
  /\ WantedBeforeCalls > Val(LastPeriod.end)
  /\ calls[1] # WantedBeforeCalls
  /\ calls[1] = Val(LastPeriod.end) - OneSecond
  /\ calls[2] = calls[1]

\* C24: when a call of updateWantedPositionIfAfterManifest changes the
\* wanted position, the new wanted position is in the last period:
\* lastPeriod.start <= new wanted position <= lastPeriod.end.
C24_CorrectedInsideLastPeriod ==
  (Len(calls) >= 1 /\ calls[1] # WantedBeforeCalls)
    => /\ LastPeriod.start <= calls[1]
       /\ calls[1] <= Val(LastPeriod.end)

====
